---- MODULE Spec2Model ----
(***************************************************************************)
(* ParaLlama: Task (src/task), Llama (src/llama.ts) and the two Runner     *)
(* variants (src/runner.ts, the collect-partial one with a status stream,  *)
(* and the fail-fast one), modelled as one state machine.                  *)
(*                                                                         *)
(* JavaScript runs every handler to completion, so each action is one      *)
(* synchronous call of the API or one event-loop turn (a worker event      *)
(* together with the promise reactions that the microtask queue runs       *)
(* right after it).                                                        *)
(***************************************************************************)
EXTENDS Integers, Sequences, FiniteSets, TLC

VARIABLES platform, policy, objs, llamas, tasks, runs, statuses, stream, outcome, io

vars == <<platform, policy, objs, llamas, tasks, runs, statuses, stream, outcome, io>>

(* ---------------------------- bounds ----------------------------------- *)
MaxTasks == 2       \* Task objects constructed
MaxList == 2        \* length of the Runner's task list
MaxLlamas == 3      \* workers spawned in one behaviour
MaxRuns == 2        \* executions of runAllTasks in one behaviour
MaxRunCalls == 2    \* calls of run() in the specification of one Task

(* ---------------------------- values ----------------------------------- *)
\* A JavaScript value is <<tag, body>>: body is a sequence of naturals.
VNil == <<"nil", <<>>>>
VBool(b) == <<"bool", <<IF b THEN 1 ELSE 0>>>>
VInt(n) == <<"int", <<n>>>>
VStr(chars) == <<"str", chars>>
VArr(elems) == <<"arr", elems>>
NoValue == <<"undefined", <<>>>>     \* a field that is not set
VInf == <<"inf", <<>>>>              \* the number Infinity
VFill(n) == <<"fill", <<n>>>>        \* an array of n elements, each the number 1
VBad(n) == <<"bad", <<n>>>>          \* an array of n elements, each a function

\* !v of JavaScript: null/undefined, false, 0 and "" are falsy.
Falsy(v) ==
  \/ v[1] = "nil"
  \/ v = NoValue
  \/ v[1] = "bool" /\ v[2] = <<0>>
  \/ v[1] = "int" /\ v[2] = <<0>>
  \/ v[1] = "str" /\ v[2] = <<>>

\* msgpack encode(value): nil c0, false c2, true c3, positive fixint,
\* fixstr a0+len, fixarray 90+len (elements are positive fixints).
\* Infinity is a float64 (cb and its eight bytes); an array of 16 to 65535
\* elements is an array16 (dc and its length): its n bytes 01 are written as
\* the one entry -n.
Encode(v) ==
  CASE v[1] = "nil" -> <<192>>
    [] v[1] = "bool" -> <<194 + v[2][1]>>
    [] v[1] = "int" -> <<v[2][1]>>
    [] v[1] = "str" -> <<160 + Len(v[2])>> \o v[2]
    [] v[1] = "arr" -> <<144 + Len(v[2])>> \o v[2]
    [] v[1] = "inf" -> <<203, 127, 240, 0, 0, 0, 0, 0, 0>>
    [] v[1] = "fill" -> <<220, v[2][1] \div 256, v[2][1] % 256, 0 - v[2][1]>>

\* encode throws 'Unrecognized object' on a function inside the value.
Encodable(v) == v[1] # "bad"

DecodeError == <<"decodeError", <<>>>>

\* msgpack decode(bytes): the inverse of Encode on well-formed input, an
\* error on empty, truncated, over-long or unknown input.
Decode(bytes) ==
  IF Len(bytes) = 0 THEN DecodeError
  ELSE LET b == bytes[1]
           rest == Tail(bytes)
       IN  CASE b <= 127 -> IF rest = <<>> THEN VInt(b) ELSE DecodeError
             [] b = 192 -> IF rest = <<>> THEN VNil ELSE DecodeError
             [] b \in {194, 195} ->
                  IF rest = <<>> THEN VBool(b = 195) ELSE DecodeError
             [] b >= 160 /\ b <= 191 ->
                  IF Len(rest) = b - 160 THEN VStr(rest) ELSE DecodeError
             [] b >= 144 /\ b <= 159 ->
                  IF Len(rest) = b - 144 /\ \A i \in 1..Len(rest) : rest[i] <= 127
                  THEN VArr(rest) ELSE DecodeError
             [] b = 203 ->
                  IF rest = <<127, 240, 0, 0, 0, 0, 0, 0>> THEN VInf ELSE DecodeError
             [] b = 220 ->
                  IF Len(rest) = 3 /\ rest[3] = 0 - (rest[1] * 256 + rest[2])
                  THEN VFill(rest[1] * 256 + rest[2]) ELSE DecodeError
             [] OTHER -> DecodeError

\* JSON.stringify(value).length
RECURSIVE JsonDigits(_)
JsonDigits(elems) ==
  IF elems = <<>> THEN 0
  ELSE (IF Head(elems) < 10 THEN 1 ELSE IF Head(elems) < 100 THEN 2 ELSE 3)
       + JsonDigits(Tail(elems))

JsonLength(v) ==
  CASE v[1] = "nil" -> 4
    [] v[1] = "bool" -> IF v[2] = <<1>> THEN 4 ELSE 5
    [] v[1] = "int" -> JsonDigits(v[2])
    [] v[1] = "str" -> Len(v[2]) + 2
    [] v[1] = "arr" -> IF v[2] = <<>> THEN 2 ELSE JsonDigits(v[2]) + Len(v[2]) + 1
    [] v[1] = "inf" -> 4
    [] v[1] = "fill" -> 2 * v[2][1] + 1
    [] v[1] = "bad" -> 5 * v[2][1] + 1

\* JSON.parse(JSON.stringify(value)): Infinity is written as null.
JsonRoundTrip(v) == IF v[1] = "inf" THEN VNil ELSE v

(* --------------------------- functions --------------------------------- *)
\* Function objects the callers pass in, and values that are not callable.
Callable == {"fnId", "fnOne", "fnThrow", "fnLate", "fnRetry", "fnTwice"}

\* func.toString(): the source text of a function.
FnToString(f) ==
  CASE f = "fnId" -> "(d) => d"
    [] f = "fnOne" -> "(d) => 1"
    [] f = "fnThrow" -> "(d) => { throw new Error('Failure') }"
    [] f = "fnLate" -> "(d) => { setTimeout(() => { throw new Error('Failure') }); return d }"
    [] f = "fnRetry" -> "(d) => { setTimeout(() => self.postMessage(d)); throw new Error('Failure') }"
    [] f = "fnTwice" -> "(d) => { self.postMessage(d); return d }"
    [] OTHER -> "null"

\* new Function('return ' + text)(): the function the text evaluates to,
\* "notAFunction" when the text evaluates to something else.
ParseFn(text) ==
  CASE text = "(d) => d" -> "fnId"
    [] text = "(d) => 1" -> "fnOne"
    [] text = "(d) => { throw new Error('Failure') }" -> "fnThrow"
    [] text = "(d) => { setTimeout(() => { throw new Error('Failure') }); return d }" -> "fnLate"
    [] text = "(d) => { setTimeout(() => self.postMessage(d)); throw new Error('Failure') }" -> "fnRetry"
    [] text = "(d) => { self.postMessage(d); return d }" -> "fnTwice"
    [] text = "(" -> "syntaxError"
    [] OTHER -> "notAFunction"

Throws(f, v) == f \in {"fnThrow", "fnRetry"}

Apply(f, v) ==
  CASE f \in {"fnId", "fnLate", "fnTwice"} -> v
    [] f = "fnOne" -> VInt(1)
    [] OTHER -> NoValue

(* ----------------------------- errors ---------------------------------- *)
\* An error message is a sequence of text pieces; <<>> is "no error".
NoError == <<>>
ErrId == <<"Task ID is required">>
ErrData == <<"Task data is required">>
ErrFunc == <<"Task function must be a valid function">>
ErrNewData == <<"newData is required">>
ErrNewFn == <<"newTaskFn is required">>
ErrNewFnInvalid == <<"newTaskFn function must be a valid function">>
ErrUnrecognized == <<"Unrecognized object: [object Function]">>
ErrEncode(msg) == <<"Failed to encode data: ">> \o msg
ErrSyntax == <<"SyntaxError: Unexpected end of input">>
ErrNoWorker(id) == <<"No worker (Llama) assigned to task ", id>>
ErrExecTask(id, msg) == <<"Failed to execute task ", id, ": ">> \o msg
ErrExecTasks(msg) == <<"Failed to execute tasks: ">> \o msg
ErrDataClone == <<"DataCloneError: ArrayBuffer is detached">>
ErrThrown == <<"Failure">>
ErrNotFunction == <<"taskFn is not a function">>
ErrDecode == <<"RangeError: msgpack decode">>

\* What the last call or event handler did and what it raised to its caller.
Outcome(op, task, err) == [op |-> op, task |-> task, err |-> err]

\* The arguments of the last call, what it returned, and the errors it left
\* to the global handler; a call without them leaves all three empty.
Io(arg, ret, uncaught) == [arg |-> arg, ret |-> ret, uncaught |-> uncaught]

(* ------------------------------ Task ----------------------------------- *)
\* Task.constructor: the checks of id, data and func, then the eager
\* encoding of data and func.
NewTaskError(id, data, func) ==
  IF id = "" THEN ErrId
  ELSE IF Falsy(data) THEN ErrData
  ELSE IF func \notin Callable THEN ErrFunc
  ELSE IF ~Encodable(data) THEN ErrUnrecognized
  ELSE NoError

NewTask(id, data, func) ==
  [id |-> id, data |-> data, taskData |-> Encode(data),
   taskFn |-> FnToString(func), llama |-> 0, detached |-> FALSE]

\* Task.updateData, the assignment this.taskData = new Uint8Array(encode(
\* newData)); the data field is not assigned.
UpdatedData(task, newData) ==
  [task EXCEPT !.taskData = Encode(newData), !.detached = FALSE]

\* Task.isLargeDataset
LargeThreshold == 100000

IsLargeDataset(data) == JsonLength(data) > LargeThreshold

\* Mutant of EncodeDataObservable: the encoding is emitted in a later turn,
\* after subscribe has returned.
EncodeDataObservableLater(data) ==
  [next |-> <<>>, error |-> NoError]

\* Task.encodeDataObservable: what from([data]).pipe(map(encode)) hands to
\* its subscriber inside subscribe: the encoding, or the error of encode.
EncodeDataObservable(data) ==
  IF Encodable(data)
  THEN [next |-> <<Encode(data)>>, error |-> NoError]
  ELSE [next |-> <<>>, error |-> ErrUnrecognized]

\* Task.updateData, large dataset: next assigns taskData; the error callback
\* throws inside the subscriber, which RxJS reports in a later timer turn
\* and not to the caller of subscribe.
UpdateLarge(task, newData) ==
  LET emitted == EncodeDataObservable(newData)
  IN  [task |-> IF emitted.next = <<>> THEN task
                ELSE [task EXCEPT !.taskData = emitted.next[Len(emitted.next)],
                                  !.detached = FALSE],
       err |-> NoError,
       uncaught |-> IF emitted.error = NoError THEN <<>>
                    ELSE <<ErrEncode(emitted.error)>>]

\* Task.updateData, small dataset: encode inside try/catch.
UpdateSmall(task, newData) ==
  IF Encodable(newData)
  THEN [task |-> UpdatedData(task, newData), err |-> NoError, uncaught |-> <<>>]
  ELSE [task |-> task, err |-> ErrEncode(ErrUnrecognized), uncaught |-> <<>>]

\* Task.updateData
UpdateDataCall(task, newData) ==
  IF Falsy(newData) THEN [task |-> task, err |-> ErrNewData, uncaught |-> <<>>]
  ELSE IF IsLargeDataset(newData) THEN UpdateLarge(task, newData)
  ELSE UpdateSmall(task, newData)

\* Task.updateTaskFn
UpdatedTaskFn(task, newTaskFn) ==
  [task EXCEPT !.taskFn = FnToString(newTaskFn)]

UpdateTaskFnError(newTaskFn) ==
  IF newTaskFn = "null" THEN ErrNewFn
  ELSE IF newTaskFn \notin Callable THEN ErrNewFnInvalid
  ELSE NoError

\* Task.getDecodedData: decode(this.taskData); a detached buffer reads as
\* an empty array of bytes.
GetDecodedData(task) == Decode(task.taskData)

\* Mutant of ValidateTask: only the data is checked.
ValidateTaskDataOnly(task) == Decode(task.taskData) # DecodeError

\* Task.validate: decode in a try, then new Function and typeof in a try.
ValidateTask(task) ==
  IF Decode(task.taskData) = DecodeError THEN FALSE
  ELSE IF ParseFn(task.taskFn) = "syntaxError" THEN FALSE
  ELSE IF ParseFn(task.taskFn) = "notAFunction" THEN FALSE
  ELSE TRUE

\* Task.serialize: the JSON text of {id, data: Array.from(taskData), func},
\* written as the record it denotes.
SerializeTask(task) ==
  [id |-> task.id, data |-> task.taskData, func |-> task.taskFn]

\* new Task(id, data, func) as the other methods call it: the error it
\* throws, or the task it returns.
TryNewTask(id, data, func) ==
  IF NewTaskError(id, data, func) # NoError
  THEN [err |-> NewTaskError(id, data, func), task |-> NewTask("", VNil, "null")]
  ELSE [err |-> NoError, task |-> NewTask(id, data, func)]

\* Task.deserialize: JSON.parse, new Function('return ' + func)(), decode
\* and the constructor; each of them may throw.
DeserializeTask(text) ==
  IF ParseFn(text.func) = "syntaxError"
  THEN [err |-> ErrSyntax, task |-> NewTask("", VNil, "null")]
  ELSE IF Decode(text.data) = DecodeError
  THEN [err |-> ErrDecode, task |-> NewTask("", VNil, "null")]
  ELSE TryNewTask(text.id, Decode(text.data), ParseFn(text.func))

\* Task.clone: JSON round trip of the decoded data, new Function on taskFn,
\* then the constructor; each of them may throw.
CloneTask(task) ==
  IF GetDecodedData(task) = DecodeError
  THEN [err |-> ErrDecode, task |-> NewTask("", VNil, "null")]
  ELSE IF ParseFn(task.taskFn) = "syntaxError"
  THEN [err |-> ErrSyntax, task |-> NewTask("", VNil, "null")]
  ELSE TryNewTask(task.id, JsonRoundTrip(GetDecodedData(task)), ParseFn(task.taskFn))

\* new Llama() followed by the body of the promise executor of Task.run:
\* the worker is stored in this.llama, the handlers are attached and
\* postMessage transfers taskData.buffer. A buffer that an earlier run has
\* transferred is detached: postMessage throws and the promise is rejected.
NewLlama(task, t, run, pos, status) ==
  [task |-> t, alive |-> TRUE, sent |-> ~task.detached,
   func |-> IF task.detached THEN "" ELSE task.taskFn,
   data |-> IF task.detached THEN <<>> ELSE task.taskData,
   events |-> 0,
   state |-> IF task.detached THEN "rejected" ELSE "pending",
   value |-> NoValue,
   error |-> IF task.detached THEN ErrDataClone ELSE NoError,
   run |-> run, pos |-> pos, status |-> status]

RunTask(os, ls, t, run, pos, status, transfer) ==
  LET task == os[t]
      moved == transfer /\ ~task.detached
  IN  [objs |-> [os EXCEPT ![t].llama = Len(ls) + 1,
                           ![t].taskData = IF moved THEN <<>> ELSE @,
                           ![t].detached = @ \/ moved],
       llamas |-> Append(ls, NewLlama(task, t, run, pos, status))]

\* Mutant of KillTask: the worker is terminated but this.llama is kept.
KillTaskKeepsHandle(os, ls, t) ==
  IF os[t].llama # 0
  THEN [objs |-> os,
        llamas |-> [ls EXCEPT ![os[t].llama].alive = FALSE],
        err |-> NoError]
  ELSE [objs |-> os, llamas |-> ls, err |-> ErrNoWorker(os[t].id)]

\* Task.kill: terminate the worker and drop it, or throw when there is none.
KillTask(os, ls, t) ==
  IF os[t].llama # 0
  THEN [objs |-> [os EXCEPT ![t].llama = 0],
        llamas |-> [ls EXCEPT ![os[t].llama].alive = FALSE],
        err |-> NoError]
  ELSE [objs |-> os, llamas |-> ls, err |-> ErrNoWorker(os[t].id)]

(* ------------------------------ Llama ---------------------------------- *)
\* Llama.workerScript: what the worker does with the message it received.
WorkerResult(c) ==
  LET taskFn == ParseFn(c.func)
      decodedData == Decode(c.data)
  IN  IF taskFn = "syntaxError" THEN [ok |-> FALSE, value |-> NoValue, msg |-> ErrSyntax]
      ELSE IF decodedData = DecodeError THEN [ok |-> FALSE, value |-> NoValue, msg |-> ErrDecode]
      ELSE IF taskFn = "notAFunction" THEN [ok |-> FALSE, value |-> NoValue, msg |-> ErrNotFunction]
      ELSE IF Throws(taskFn, decodedData) THEN [ok |-> FALSE, value |-> NoValue, msg |-> ErrThrown]
      ELSE [ok |-> TRUE, value |-> Apply(taskFn, decodedData), msg |-> NoError]

\* What the worker still hands over after the first event, caused by what
\* the task function left behind: a timer that throws, a timer that posts,
\* a message the function posted itself.
LaterEvents(f, v) ==
  CASE f = "fnLate" -> <<[ok |-> FALSE, value |-> NoValue, msg |-> ErrThrown]>>
    [] f = "fnRetry" -> <<[ok |-> TRUE, value |-> v, msg |-> NoError]>>
    [] f = "fnTwice" -> <<[ok |-> TRUE, value |-> v, msg |-> NoError]>>
    [] OTHER -> <<>>

\* The events of the worker of c, in the order the main thread gets them.
WorkerEvents(c) ==
  <<WorkerResult(c)>> \o LaterEvents(ParseFn(c.func), Decode(c.data))

\* Mutant of OnMessage: the message settles the promise again.
OnMessageOverwrites(c, data) ==
  [c EXCEPT !.state = "resolved", !.value = data, !.events = @ + 1]

\* worker.onmessage of Task.run: resolve(e.data); settling a settled promise
\* does nothing.
OnMessage(c, data) ==
  IF c.state = "pending"
  THEN [c EXCEPT !.state = "resolved", !.value = data, !.events = @ + 1]
  ELSE [c EXCEPT !.events = @ + 1]

\* Mutant of OnError: the error event is dropped.
OnErrorDropped(c, id, msg) ==
  [c EXCEPT !.events = @ + 1]

\* worker.onerror of Task.run: reject(new Error(...)).
OnError(c, id, msg) ==
  IF c.state = "pending"
  THEN [c EXCEPT !.state = "rejected", !.error = ErrExecTask(id, msg), !.events = @ + 1]
  ELSE [c EXCEPT !.events = @ + 1]

(* ------------------------------ Runner --------------------------------- *)
\* One execution of runAllTasks: the tasks it mapped, the number of inner
\* observables mergeMap still waits for, the buffer of toArray, and what
\* the caller has been given. order is the list position behind each entry
\* of buffer (bookkeeping of the model: the code does not store it).
NewRun(list) ==
  [list |-> list, active |-> Len(list), buffer |-> <<>>, order |-> <<>>,
   state |-> IF Len(list) = 0 THEN "delivered" ELSE "active",
   result |-> <<>>, error |-> NoError]

\* Mutant of ToArray: the buffer is emitted although inner observables are
\* still active.
ToArrayEarly(r) ==
  IF r.state = "active"
  THEN [r EXCEPT !.state = "delivered", !.result = r.buffer]
  ELSE r

\* toArray: the buffer is emitted when mergeMap completes, that is when the
\* source and every inner observable have completed.
ToArray(r) ==
  IF r.active = 0 /\ r.state = "active"
  THEN [r EXCEPT !.state = "delivered", !.result = r.buffer]
  ELSE r

\* mergeMap: a value of an inner observable is passed on when it arrives;
\* the inner observable then completes.
MergeNext(r, pos, result) ==
  ToArray([r EXCEPT !.buffer = Append(@, result), !.order = Append(@, pos),
                    !.active = @ - 1])

\* Mutant of MergeErrorCollect: the failed task leaves an empty entry.
MergeErrorCollectKeepsEntry(r, pos, err) ==
  ToArray([r EXCEPT !.buffer = Append(@, NoValue), !.order = Append(@, pos),
                    !.active = @ - 1])

\* src/runner.ts: observer.error(error) meets catchError(() => []) inside
\* mergeMap: the inner observable completes without a value.
MergeErrorCollect(r, pos, err) ==
  ToArray([r EXCEPT !.active = @ - 1])

\* Mutant of MergeErrorFailFast: the error is swallowed as in src/runner.ts.
MergeErrorFailFastSwallows(r, id, err) ==
  ToArray([r EXCEPT !.active = @ - 1])

\* Fail-fast variant: the error of the inner observable is rethrown with the
\* task's id, passes mergeMap and toArray and is rethrown by the outer
\* catchError; the subscription ends.
MergeErrorFailFast(r, id, err) ==
  [r EXCEPT !.state = "rejected", !.error = ErrExecTasks(ErrExecTask(id, err))]

\* Mutant of FirstStatus: the status object starts as pending.
FirstStatusPending == "pending"

\* The status object runAllTasks creates for a task at dispatch and the
\* status it then holds; a time of 0 is an unset time.
FirstStatus == "running"

NewStatus(id, now) ==
  [id |-> id, status |-> FirstStatus, startTime |-> now, endTime |-> 0,
   result |-> NoValue, error |-> NoError]

\* Mutant of CompletedStatus: the end time is not stamped.
CompletedStatusNoEnd(st, now, result) ==
  [st EXCEPT !.status = "completed", !.result = result]

\* The map callback of runAllTasks on the status object.
CompletedStatus(st, now, result) ==
  [st EXCEPT !.status = "completed", !.endTime = now, !.result = result]

\* Mutant of FailedStatus: the failure is reported as a completion.
FailedStatusAsCompleted(st, now, err) ==
  [st EXCEPT !.status = "completed", !.endTime = now, !.error = err]

\* The catchError callback of runAllTasks on the status object.
FailedStatus(st, now, err) ==
  [st EXCEPT !.status = "failed", !.endTime = now, !.error = err]

\* this.taskStatus.next(taskStatus): subscribers get the status object; seen
\* is what the object reads at the time of the emission.
Emit(str, ref, st) == Append(str, [ref |-> ref, seen |-> st])

\* The state the runner touches: Task objects, workers, executions, statuses.
World(os, ls, rs, ss, str) ==
  [objs |-> os, llamas |-> ls, runs |-> rs, statuses |-> ss, stream |-> str]

\* Mutant of ReactCollect: the terminal status is recorded and not
\* emitted.
ReactCollectSilent(w, l) ==
  LET c == w.llamas[l]
      now == Len(w.stream) + 1
      st == IF c.state = "resolved"
            THEN CompletedStatus(w.statuses[c.status], now, c.value)
            ELSE FailedStatus(w.statuses[c.status], now, c.error)
  IN  [w EXCEPT !.statuses[c.status] = st,
                !.runs[c.run] = IF c.state = "resolved"
                                THEN MergeNext(@, c.pos, c.value)
                                ELSE MergeErrorCollect(@, c.pos, c.error)]

\* The reaction to the settled promise of worker l, src/runner.ts.
ReactCollect(w, l) ==
  LET c == w.llamas[l]
      now == Len(w.stream) + 1
      st == IF c.state = "resolved"
            THEN CompletedStatus(w.statuses[c.status], now, c.value)
            ELSE FailedStatus(w.statuses[c.status], now, c.error)
  IN  [w EXCEPT !.statuses[c.status] = st,
                !.stream = Emit(@, c.status, st),
                !.runs[c.run] = IF c.state = "resolved"
                                THEN MergeNext(@, c.pos, c.value)
                                ELSE MergeErrorCollect(@, c.pos, c.error)]

\* Mutant of ReactFailFast: an execution that has ended still takes the
\* failures that follow.
ReactFailFastLastError(w, l) ==
  LET c == w.llamas[l]
  IN  [w EXCEPT !.runs[c.run] =
         IF c.state = "resolved"
         THEN IF @.state = "active" THEN MergeNext(@, c.pos, c.value) ELSE @
         ELSE MergeErrorFailFast(@, w.objs[c.task].id, c.error)]

\* The reaction to the settled promise of worker l, fail-fast variant; an
\* execution that has ended is no longer subscribed.
ReactFailFast(w, l) ==
  LET c == w.llamas[l]
  IN  IF w.runs[c.run].state # "active" THEN w
      ELSE [w EXCEPT !.runs[c.run] =
              IF c.state = "resolved"
              THEN MergeNext(@, c.pos, c.value)
              ELSE MergeErrorFailFast(@, w.objs[c.task].id, c.error)]

React(w, l, pol) ==
  IF w.llamas[l].run = 0 THEN w
  ELSE IF pol = "collect" THEN ReactCollect(w, l)
  ELSE ReactFailFast(w, l)

\* The subscription to the task observables in list order: the status
\* object and its running emission (src/runner.ts only), then task.run().
RECURSIVE Dispatch(_, _, _, _, _, _)
Dispatch(w, list, k, run, pol, transfer) ==
  IF k > Len(list) THEN w
  ELSE LET t == list[k]
           ref == IF pol = "collect" THEN Len(w.statuses) + 1 ELSE 0
           st == NewStatus(w.objs[t].id, Len(w.stream) + 1)
           ran == RunTask(w.objs, w.llamas, t, run, k, ref, transfer)
           next == [w EXCEPT !.objs = ran.objs, !.llamas = ran.llamas,
                             !.statuses = IF pol = "collect" THEN Append(@, st) ELSE @,
                             !.stream = IF pol = "collect" THEN Emit(@, ref, st) ELSE @]
       IN  Dispatch(next, list, k + 1, run, pol, transfer)

\* The microtasks that follow the synchronous dispatch: the reactions to the
\* promises that were rejected inside run() itself, in dispatch order.
RECURSIVE Drain(_, _, _, _)
Drain(w, l, run, pol) ==
  IF l > Len(w.llamas) THEN w
  ELSE IF w.llamas[l].run = run /\ w.llamas[l].state = "rejected"
       THEN Drain(React(w, l, pol), l + 1, run, pol)
       ELSE Drain(w, l + 1, run, pol)

\* Runner.killAllTasks: forEach(task => task.kill()); an exception of kill
\* ends the loop and reaches the caller.
RECURSIVE KillAll(_, _, _, _)
KillAll(os, ls, list, k) ==
  IF k > Len(list) THEN [objs |-> os, llamas |-> ls, err |-> NoError]
  ELSE LET killed == KillTask(os, ls, list[k])
       IN  IF killed.err # NoError THEN killed
           ELSE KillAll(killed.objs, killed.llamas, list, k + 1)

(* ------------------------------ actions -------------------------------- *)
Platforms == [transfer : BOOLEAN, late : BOOLEAN]

InitWith(pol) ==
  /\ platform \in Platforms
  /\ policy = pol
  /\ objs = <<>>
  /\ llamas = <<>>
  /\ tasks = <<>>
  /\ runs = <<>>
  /\ statuses = <<>>
  /\ stream = <<>>
  /\ outcome = Outcome("init", 0, NoError)
  /\ io = Io(<<>>, NoValue, <<>>)

\* new Task(id, data, func)
Construct(inputs, funcs, max) ==
  \E in \in inputs, func \in funcs :
    /\ Len(objs) < max
    /\ objs' = IF NewTaskError(in[1], in[2], func) = NoError
               THEN Append(objs, NewTask(in[1], in[2], func))
               ELSE objs
    /\ outcome' = Outcome("new", 0, NewTaskError(in[1], in[2], func))
    /\ io' = Io(<<in[1], in[2], func>>, NoValue, <<>>)
    /\ UNCHANGED <<platform, policy, llamas, tasks, runs, statuses, stream>>

\* task.updateData(newData)
UpdateData(datas) ==
  \E t \in 1..Len(objs), newData \in datas :
    /\ objs' = [objs EXCEPT ![t] = UpdateDataCall(@, newData).task]
    /\ outcome' = Outcome("updateData", t, UpdateDataCall(objs[t], newData).err)
    /\ io' = Io(<<newData>>, NoValue, UpdateDataCall(objs[t], newData).uncaught)
    /\ UNCHANGED <<platform, policy, llamas, tasks, runs, statuses, stream>>

\* task.updateTaskFn(newTaskFn)
UpdateTaskFn(funcs) ==
  \E t \in 1..Len(objs), newTaskFn \in funcs :
    /\ objs' = IF UpdateTaskFnError(newTaskFn) = NoError
               THEN [objs EXCEPT ![t] = UpdatedTaskFn(@, newTaskFn)]
               ELSE objs
    /\ outcome' = Outcome("updateTaskFn", t, UpdateTaskFnError(newTaskFn))
    /\ io' = Io(<<newTaskFn>>, NoValue, <<>>)
    /\ UNCHANGED <<platform, policy, llamas, tasks, runs, statuses, stream>>

\* task.taskData = bytes: the field is public
AssignTaskData(bytes) ==
  \E t \in 1..Len(objs), b \in bytes :
    /\ objs' = [objs EXCEPT ![t].taskData = b, ![t].detached = FALSE]
    /\ outcome' = Outcome("taskData=", t, NoError)
    /\ io' = Io(<<b>>, NoValue, <<>>)
    /\ UNCHANGED <<platform, policy, llamas, tasks, runs, statuses, stream>>

\* task.taskFn = text: the field is public
AssignTaskFn(texts) ==
  \E t \in 1..Len(objs), text \in texts :
    /\ objs' = [objs EXCEPT ![t].taskFn = text]
    /\ outcome' = Outcome("taskFn=", t, NoError)
    /\ io' = Io(<<text>>, NoValue, <<>>)
    /\ UNCHANGED <<platform, policy, llamas, tasks, runs, statuses, stream>>

\* task.validate()
Validate ==
  \E t \in 1..Len(objs) :
    /\ outcome' = Outcome("validate", t, NoError)
    /\ io' = Io(<<>>, VBool(ValidateTask(objs[t])), <<>>)
    /\ UNCHANGED <<platform, policy, objs, llamas, tasks, runs, statuses, stream>>

\* task.serialize()
Serialize ==
  \E t \in 1..Len(objs) :
    /\ outcome' = Outcome("serialize", t, NoError)
    /\ io' = Io(<<>>, SerializeTask(objs[t]), <<>>)
    /\ UNCHANGED <<platform, policy, objs, llamas, tasks, runs, statuses, stream>>

\* Task.deserialize(text), on the text serialize() has just returned
Deserialize(max) ==
  /\ outcome.op = "serialize"
  /\ Len(objs) < max
  /\ objs' = IF DeserializeTask(io.ret).err = NoError
             THEN Append(objs, DeserializeTask(io.ret).task)
             ELSE objs
  /\ outcome' = Outcome("deserialize", outcome.task, DeserializeTask(io.ret).err)
  /\ io' = Io(<<io.ret>>, NoValue, <<>>)
  /\ UNCHANGED <<platform, policy, llamas, tasks, runs, statuses, stream>>

\* task.clone()
Clone(max) ==
  \E t \in 1..Len(objs) :
    /\ Len(objs) < max
    /\ objs' = IF CloneTask(objs[t]).err = NoError
               THEN Append(objs, CloneTask(objs[t]).task)
               ELSE objs
    /\ outcome' = Outcome("clone", t, CloneTask(objs[t]).err)
    /\ io' = Io(<<>>, NoValue, <<>>)
    /\ UNCHANGED <<platform, policy, llamas, tasks, runs, statuses, stream>>

\* task.run() called by the user of the Task
TaskRun(max) ==
  \E t \in 1..Len(objs) :
    /\ Len(llamas) < max
    /\ LET ran == RunTask(objs, llamas, t, 0, 0, 0, platform.transfer)
       IN  objs' = ran.objs /\ llamas' = ran.llamas
    /\ outcome' = Outcome("run", t, NoError)
    /\ io' = Io(<<>>, NoValue, <<>>)
    /\ UNCHANGED <<platform, policy, tasks, runs, statuses, stream>>

\* task.kill()
TaskKill ==
  \E t \in 1..Len(objs) :
    /\ LET killed == KillTask(objs, llamas, t)
       IN  /\ objs' = killed.objs
           /\ llamas' = killed.llamas
           /\ outcome' = Outcome("kill", t, killed.err)
    /\ io' = Io(<<>>, NoValue, <<>>)
    /\ UNCHANGED <<platform, policy, tasks, runs, statuses, stream>>

\* runner.addTask(task)
AddTask ==
  \E t \in 1..Len(objs) :
    /\ Len(tasks) < MaxList
    /\ tasks' = Append(tasks, t)
    /\ outcome' = Outcome("addTask", t, NoError)
    /\ io' = Io(<<>>, NoValue, <<>>)
    /\ UNCHANGED <<platform, policy, objs, llamas, runs, statuses, stream>>

\* Mutant of RunAllTasks: the reactions to the first task run before the
\* other tasks are dispatched.
RunAllTasksOneByOne ==
  /\ Len(runs) < MaxRuns
  /\ Len(llamas) + Len(tasks) <= MaxLlamas
  /\ LET run == Len(runs) + 1
         w0 == World(objs, llamas, Append(runs, NewRun(tasks)), statuses, stream)
         w1 == Dispatch(w0, IF tasks = <<>> THEN <<>> ELSE <<tasks[1]>>, 1, run,
                        policy, platform.transfer)
         w2 == Drain(w1, 1, run, policy)
         w3 == Dispatch(w2, tasks, 2, run, policy, platform.transfer)
         w4 == Drain(w3, Len(w2.llamas) + 1, run, policy)
     IN  /\ objs' = w4.objs
         /\ llamas' = w4.llamas
         /\ runs' = w4.runs
         /\ statuses' = w4.statuses
         /\ stream' = w4.stream
  /\ outcome' = Outcome("runAllTasks", 0, NoError)
  /\ io' = Io(<<>>, NoValue, <<>>)
  /\ UNCHANGED <<platform, policy, tasks>>

\* lastValueFrom(runner.runAllTasks()): every task is dispatched in one
\* synchronous pass.
RunAllTasks ==
  /\ Len(runs) < MaxRuns
  /\ Len(llamas) + Len(tasks) <= MaxLlamas
  /\ LET run == Len(runs) + 1
         w0 == World(objs, llamas, Append(runs, NewRun(tasks)), statuses, stream)
         w1 == Dispatch(w0, tasks, 1, run, policy, platform.transfer)
         w2 == Drain(w1, 1, run, policy)
     IN  /\ objs' = w2.objs
         /\ llamas' = w2.llamas
         /\ runs' = w2.runs
         /\ statuses' = w2.statuses
         /\ stream' = w2.stream
  /\ outcome' = Outcome("runAllTasks", 0, NoError)
  /\ io' = Io(<<>>, NoValue, <<>>)
  /\ UNCHANGED <<platform, policy, tasks>>

\* The worker can still hand an event to the main thread: it has a message,
\* has an event left, and is not terminated (or the platform delivers the
\* event of a terminated worker all the same).
CanDeliver(c) ==
  /\ c.sent
  /\ c.events < Len(WorkerEvents(c))
  /\ c.alive \/ platform.late

NextEvent(c) == WorkerEvents(c)[c.events + 1]

Settle(l, settled) ==
  LET w0 == World(objs, [llamas EXCEPT ![l] = settled], runs, statuses, stream)
      w1 == IF llamas[l].state = "pending" THEN React(w0, l, policy) ELSE w0
  IN  /\ llamas' = w1.llamas
      /\ runs' = w1.runs
      /\ statuses' = w1.statuses
      /\ stream' = w1.stream
      /\ outcome' = Outcome("event", llamas[l].task, NoError)
      /\ io' = Io(<<>>, NoValue, <<>>)
      /\ UNCHANGED <<platform, policy, objs, tasks>>

\* The worker's reply: the message event, then the promise reaction.
WorkerMessage ==
  \E l \in 1..Len(llamas) :
    /\ CanDeliver(llamas[l])
    /\ NextEvent(llamas[l]).ok
    /\ Settle(l, OnMessage(llamas[l], NextEvent(llamas[l]).value))

\* The worker's uncaught exception: the error event, then the reaction.
WorkerError ==
  \E l \in 1..Len(llamas) :
    /\ CanDeliver(llamas[l])
    /\ ~NextEvent(llamas[l]).ok
    /\ Settle(l, OnError(llamas[l], objs[llamas[l].task].id, NextEvent(llamas[l]).msg))

\* runner.killAllTasks()
KillAllTasks ==
  /\ LET killed == KillAll(objs, llamas, tasks, 1)
     IN  /\ objs' = killed.objs
         /\ llamas' = killed.llamas
         /\ outcome' = Outcome("killAllTasks", 0, killed.err)
  /\ io' = Io(<<>>, NoValue, <<>>)
  /\ UNCHANGED <<platform, policy, tasks, runs, statuses, stream>>

(* --------------------------- specifications ---------------------------- *)
\* The tasks of the Runner specifications: task "a" carries 1, task "b" 2.
RunnerInputs == {<<"a", VInt(1)>>, <<"b", VInt(2)>>}
RunnerFuncs == {"fnId", "fnThrow"}

Init == InitWith("collect")

Next ==
  \/ Construct(RunnerInputs, RunnerFuncs, MaxTasks)
  \/ AddTask
  \/ RunAllTasks
  \/ WorkerMessage
  \/ WorkerError
  \/ TaskKill
  \/ KillAllTasks

Spec == Init /\ [][Next]_vars

InitFF == InitWith("failfast")

SpecFF == InitFF /\ [][Next]_vars

TaskIds == {"", "a"}
TaskData == {VNil, VInt(1), VArr(<<1>>)}
TaskFuncs == {"fnId", "fnThrow", "null"}

\* The specification of one Task object and its workers.
NextTask ==
  \/ Construct(TaskIds \X TaskData, TaskFuncs, 1)
  \/ UpdateData(TaskData)
  \/ UpdateTaskFn(TaskFuncs)
  \/ TaskRun(MaxRunCalls)
  \/ TaskKill
  \/ WorkerMessage
  \/ WorkerError

SpecTask == Init /\ [][NextTask]_vars

\* The data of one Task: the payloads a caller may pass (absent, falsy,
\* empty, ordinary, Infinity, just below and just above the large-dataset
\* threshold, not encodable below and above it), the functions and
\* non-functions, and the writes to the public fields.
DataIds == {"", "a"}
DataValues ==
  {VNil, VInt(0), VBool(FALSE), VStr(<<>>), VArr(<<>>), VInt(1), VInf,
   VFill(49999), VFill(50000), VBad(1), VBad(20000)}
DataFuncs == {"fnId", "fnThrow", "null", "42"}
CorruptBytes == {<<193>>, <<1, 2>>}
FnTexts == {"(", "42"}

NextData ==
  \/ Construct(DataIds \X DataValues, DataFuncs, 1)
  \/ UpdateData(DataValues)
  \/ UpdateTaskFn(DataFuncs)
  \/ AssignTaskData(CorruptBytes)
  \/ AssignTaskFn(FnTexts)
  \/ Validate

SpecData == Init /\ [][NextData]_vars

\* A Task and the one copy serialize/deserialize or clone makes of it.
CopyValues == {VInt(1), VInf}
CopyFuncs == {"fnId", "fnThrow"}

NextCopy ==
  \/ Construct({"a"} \X CopyValues, CopyFuncs, 1)
  \/ UpdateData(CopyValues)
  \/ UpdateTaskFn(CopyFuncs)
  \/ TaskRun(1)
  \/ TaskKill
  \/ Serialize
  \/ Deserialize(2)
  \/ Clone(2)

SpecCopy == Init /\ [][NextCopy]_vars

\* One Task, the writes to its public fields, and its workers.
WorkerData == {VInt(1)}
WorkerFuncs == {"fnId", "fnThrow"}
WorkerBytes == {<<193>>}
WorkerTexts == {"("}

NextWorker ==
  \/ Construct({"a"} \X WorkerData, WorkerFuncs, 1)
  \/ AssignTaskData(WorkerBytes)
  \/ AssignTaskFn(WorkerTexts)
  \/ TaskRun(MaxRunCalls)
  \/ TaskKill
  \/ WorkerMessage
  \/ WorkerError

SpecWorker == Init /\ [][NextWorker]_vars

\* The Runner of src/runner.ts over task functions whose worker hands over
\* a second event.
EventInputs == {<<"a", VInt(1)>>}
EventFuncs == {"fnLate", "fnRetry", "fnTwice"}

NextEvents ==
  \/ Construct(EventInputs, EventFuncs, MaxTasks)
  \/ AddTask
  \/ RunAllTasks
  \/ WorkerMessage
  \/ WorkerError

SpecEvents == Init /\ [][NextEvents]_vars

\* The Runner of src/runner.ts when nothing terminates a worker: every
\* worker that got its message hands over its event, and the event loop
\* handles an event that is waiting.
LiveInputs == {<<"a", VInt(1)>>}
LiveFuncs == {"fnId", "fnThrow"}

NextLive ==
  \/ Construct(LiveInputs, LiveFuncs, MaxTasks)
  \/ AddTask
  \/ RunAllTasks
  \/ WorkerMessage
  \/ WorkerError

SpecLive ==
  Init /\ [][NextLive]_vars /\ WF_vars(WorkerMessage) /\ WF_vars(WorkerError)

\* The same with kill() and killAllTasks(): a worker that can still hand
\* over its event does so.
NextKill ==
  \/ NextLive
  \/ TaskKill
  \/ KillAllTasks

SpecKill ==
  Init /\ [][NextKill]_vars /\ WF_vars(WorkerMessage) /\ WF_vars(WorkerError)

(* ------------------------------ claims --------------------------------- *)
Runs == 1..Len(runs)
Llamas == 1..Len(llamas)
Objs == 1..Len(objs)

\* The workers run r dispatched, and the one it dispatched for position p.
LlamasOf(r) == {l \in Llamas : llamas[l].run = r}
LlamaAt(r, p) == CHOOSE l \in Llamas : llamas[l].run = r /\ llamas[l].pos = p

\* The places of the aggregate of run r that hold the result of position p.
EntriesOf(r, p) == {i \in 1..Len(runs[r].order) : runs[r].order[i] = p}

\* What the stream has emitted for status object s, in emission order.
RECURSIVE SeenOf(_, _)
SeenOf(str, s) ==
  IF str = <<>> THEN <<>>
  ELSE IF Head(str).ref = s
       THEN <<Head(str).seen>> \o SeenOf(Tail(str), s)
       ELSE SeenOf(Tail(str), s)

\* The results of the tasks of run r whose run() resolved, from list
\* position p on, in list order.
RECURSIVE ResolvedFrom(_, _)
ResolvedFrom(r, p) ==
  IF p > Len(runs[r].list) THEN <<>>
  ELSE (IF llamas[LlamaAt(r, p)].state = "resolved"
        THEN <<llamas[LlamaAt(r, p)].value>> ELSE <<>>)
       \o ResolvedFrom(r, p + 1)

\* C1: the aggregate a run delivers lists the results of its successful
\* tasks in submission order, whatever the order of the workers' replies.
C1_SubmissionOrder ==
  \A r \in Runs :
    runs[r].state = "delivered" => runs[r].result = ResolvedFrom(r, 1)

\* C2: under collect-partial an execution never raises, and the aggregate it
\* delivers has exactly one entry, the task's result, for every task whose
\* run() resolved and none for a task whose run() rejected: N - M entries.
C2_CollectPartial ==
  policy = "collect" =>
    \A r \in Runs :
      /\ runs[r].state # "rejected"
      /\ runs[r].state = "delivered" =>
           /\ Len(runs[r].result) =
                Len(runs[r].list)
                  - Cardinality({l \in LlamasOf(r) : llamas[l].state = "rejected"})
           /\ \A p \in 1..Len(runs[r].list) :
                LET c == llamas[LlamaAt(r, p)]
                IN  /\ c.state = "resolved" =>
                         /\ Cardinality(EntriesOf(r, p)) = 1
                         /\ \A i \in EntriesOf(r, p) : runs[r].result[i] = c.value
                    /\ c.state = "rejected" => EntriesOf(r, p) = {}
                    /\ c.sent =>
                         (c.state = "rejected" <=> Throws(ParseFn(c.func), Decode(c.data)))

C2_Witness ==
  /\ policy = "collect"
  /\ \E r \in Runs :
       /\ runs[r].state = "delivered"
       /\ Len(runs[r].list) = 2
       /\ Len(runs[r].result) = 1
       /\ \E l \in LlamasOf(r) : llamas[l].error = ErrExecTask(objs[llamas[l].task].id, ErrThrown)

\* C3: under fail-fast an execution with a failed task is rejected with a
\* message that starts with 'Failed to execute tasks' and holds no result
\* array, whatever the other tasks did.
C3_FailFast ==
  policy = "failfast" =>
    \A r \in Runs :
      (\E l \in LlamasOf(r) : llamas[l].state = "rejected") =>
        /\ runs[r].state = "rejected"
        /\ Head(runs[r].error) = "Failed to execute tasks: "
        /\ runs[r].result = <<>>

C3_Witness ==
  /\ policy = "failfast"
  /\ \E r \in Runs :
       /\ runs[r].state = "rejected"
       /\ \E l \in LlamasOf(r) : llamas[l].state = "resolved"
       /\ \E l \in LlamasOf(r) : llamas[l].error = ErrExecTask(objs[llamas[l].task].id, ErrThrown)

\* C4: for every task of an execution the stream carries `running` and then
\* at most one more status, `completed` if the worker replied and `failed`
\* if it errored; it carries that terminal status exactly when the task's
\* promise has settled, and a delivered execution has one for every task.
C4_OneTerminal ==
  \A l \in Llamas :
    llamas[l].status # 0 =>
      LET seen == SeenOf(stream, llamas[l].status)
      IN  /\ Len(seen) \in {1, 2}
          /\ seen[1].status = "running"
          /\ Len(seen) = 2 <=> llamas[l].state # "pending"
          /\ llamas[l].state = "resolved" => seen[2].status = "completed"
          /\ llamas[l].state = "rejected" => seen[2].status = "failed"
          /\ runs[llamas[l].run].state = "delivered" => Len(seen) = 2

C4_Witness ==
  /\ \E l \in Llamas : llamas[l].status # 0 /\ llamas[l].state = "resolved"
                       /\ Len(SeenOf(stream, llamas[l].status)) = 2
  /\ \E l \in Llamas : llamas[l].status # 0 /\ llamas[l].state = "rejected"
                       /\ Len(SeenOf(stream, llamas[l].status)) = 2

\* C5 as claimed: the first status recorded and emitted for a task is
\* `pending`.
C5_FirstPending ==
  \A s \in 1..Len(statuses) : SeenOf(stream, s)[1].status = "pending"

\* C5 amended: the first status recorded and emitted for a task is
\* `running`, with its start time set; `pending` is never recorded or
\* emitted.
C5_FirstRunning ==
  /\ \A s \in 1..Len(statuses) :
       /\ SeenOf(stream, s) # <<>>
       /\ SeenOf(stream, s)[1].status = "running"
       /\ SeenOf(stream, s)[1].startTime > 0
       /\ statuses[s].status # "pending"
  /\ \A i \in 1..Len(stream) : stream[i].seen.status # "pending"

C5_Witness ==
  \E s \in 1..Len(statuses) :
    /\ Len(SeenOf(stream, s)) = 2
    /\ SeenOf(stream, s)[1].status = "running"

\* C6: killAllTasks does not raise, and afterwards no task of the list owns
\* a worker and no worker of a task of the list is left running.
C6_KillAllBestEffort ==
  outcome.op = "killAllTasks" =>
    /\ outcome.err = NoError
    /\ \A k \in 1..Len(tasks) : objs[tasks[k]].llama = 0

C8_KilledReplyIgnored ==
  [][\A l \in Llamas :
       ~llamas[l].alive /\ llamas[l].state = "pending" =>
         /\ llamas'[l].state = "pending"
         /\ llamas[l].run # 0 =>
              /\ runs'[llamas[l].run].buffer = runs[llamas[l].run].buffer
                   \/ llamas[l].pos \notin
                        {runs'[llamas[l].run].order[i] : i \in 1..Len(runs'[llamas[l].run].order)}
              /\ llamas[l].status # 0 =>
                   SeenOf(stream', llamas[l].status) = SeenOf(stream, llamas[l].status)]_vars

\* C9: decoding taskData yields the task's data, in every state.
C9_RoundTrip ==
  \A t \in Objs : GetDecodedData(objs[t]) = objs[t].data

\* C10: a task has at most one worker that is not terminated, and none
\* right after a kill() that succeeded.
C10_OneWorker ==
  \A t \in Objs :
    /\ Cardinality({l \in Llamas : llamas[l].task = t /\ llamas[l].alive}) <= 1
    /\ outcome = Outcome("kill", t, NoError) =>
         {l \in Llamas : llamas[l].task = t /\ llamas[l].alive} = {}

\* The object the last operation has made: the last one constructed.
Made == objs[Len(objs)]

\* C11 as claimed: construction is rejected exactly when the identifier is
\* missing or empty, the payload is absent, or the task function is not
\* callable; with an identifier and a callable it succeeds for every
\* payload that is provided and can be encoded, and the task then holds
\* that payload.
C11_ConstructorRejections ==
  outcome.op = "new" =>
    LET id == io.arg[1]
        data == io.arg[2]
        func == io.arg[3]
        absent == data = VNil
    IN  /\ id = "" => outcome.err = ErrId
        /\ id # "" /\ absent => outcome.err = ErrData
        /\ id # "" /\ ~absent /\ func \notin Callable => outcome.err = ErrFunc
        /\ id # "" /\ ~absent /\ func \in Callable /\ Encodable(data) =>
             /\ outcome.err = NoError
             /\ Len(objs) > 0
             /\ Made.id = id
             /\ GetDecodedData(Made) = data

\* C12 as claimed: deserialize applied to the text serialize has returned
\* makes a separate task with the same id, the same decoded payload and
\* the same function text as the task that was serialized.
C12_SerializeIdentity ==
  outcome.op = "deserialize" =>
    /\ outcome.err = NoError
    /\ Len(objs) > outcome.task
    /\ Made.id = objs[outcome.task].id
    /\ GetDecodedData(Made) = GetDecodedData(objs[outcome.task])
    /\ Made.taskFn = objs[outcome.task].taskFn

\* C13: validate never raises and changes no field of any task; it returns
\* true exactly when the stored payload decodes and the stored function
\* text parses to a callable, and false otherwise.
C13_ValidateTotal ==
  [][outcome'.op = "validate" =>
       /\ outcome'.err = NoError
       /\ objs' = objs
       /\ llamas' = llamas
       /\ io'.ret = VBool(/\ Decode(objs[outcome'.task].taskData) # DecodeError
                          /\ ParseFn(objs[outcome'.task].taskFn) \in Callable)]_vars

\* validate has returned false for a task whose function text does not
\* parse to a callable while its payload decodes.
C13_Witness ==
  /\ outcome.op = "validate"
  /\ io.ret = VBool(FALSE)
  /\ Decode(objs[outcome.task].taskData) # DecodeError
  /\ ParseFn(objs[outcome.task].taskFn) \notin Callable


\* The task function of worker c is a callable that returns normally on
\* the payload the worker decodes.
ReturnsNormally(c) ==
  /\ ParseFn(c.func) \in Callable
  /\ Decode(c.data) # DecodeError
  /\ ~Throws(ParseFn(c.func), Decode(c.data))

\* C14 as claimed: run() hands the stored function text and the stored
\* bytes to a fresh worker that the task then owns, and for a function that
\* returns normally on the payload the promise of run() is resolved, once
\* the worker has replied, with the function applied to the payload.
C14_RunResolves ==
  [][/\ outcome'.op = "run" =>
          LET t == outcome'.task
              c == llamas'[Len(llamas')]
          IN  /\ Len(llamas') = Len(llamas) + 1
              /\ objs'[t].llama = Len(llamas')
              /\ c.alive /\ c.sent
              /\ c.func = objs[t].taskFn
              /\ c.data = objs[t].taskData
     /\ \A l \in 1..Len(llamas') :
          ReturnsNormally(llamas'[l]) /\ llamas'[l].events > 0 =>
            /\ llamas'[l].state = "resolved"
            /\ llamas'[l].value =
                 Apply(ParseFn(llamas'[l].func), Decode(llamas'[l].data))]_vars

\* C15: a worker that fails while it reconstructs the function, decodes
\* the payload or invokes the function hands over one error event and no
\* reply; its run() is never resolved, and once the event is handled it is
\* rejected with the execution error naming the task's id and carrying the
\* worker's failure message.
C15_WorkerFailureRejects ==
  \A l \in Llamas :
    LET c == llamas[l]
    IN  c.sent /\ ~ReturnsNormally(c) =>
          /\ WorkerEvents(c) = <<[ok |-> FALSE, value |-> NoValue,
                                  msg |-> WorkerResult(c).msg]>>
          /\ WorkerResult(c).msg # NoError
          /\ c.state # "resolved"
          /\ c.events > 0 =>
               /\ c.state = "rejected"
               /\ c.error = <<"Failed to execute task ", objs[c.task].id, ": ">>
                              \o WorkerResult(c).msg

\* Two run() calls have been rejected: one whose bytes do not decode and
\* one whose function throws.
C15_Witness ==
  \E l1, l2 \in Llamas :
    /\ llamas[l1].state = "rejected" /\ WorkerResult(llamas[l1]).msg = ErrDecode
    /\ llamas[l2].state = "rejected" /\ WorkerResult(llamas[l2]).msg = ErrThrown

\* C16: when updateData(p) has returned without an error for a payload p
\* that can be encoded, taskData holds encode(p), on the large path as on
\* the small one.
C16_PathsConverge ==
  outcome.op = "updateData" /\ outcome.err = NoError /\ Encodable(io.arg[1]) =>
    /\ objs[outcome.task].taskData = Encode(io.arg[1])
    /\ objs[outcome.task].taskData = UpdateSmall(objs[outcome.task], io.arg[1]).task.taskData
    /\ io.uncaught = <<>>

\* updateData has returned for a payload above the threshold, on a task
\* that held other bytes before.
C16_Witness ==
  /\ outcome.op = "updateData"
  /\ outcome.err = NoError
  /\ IsLargeDataset(io.arg[1])
  /\ objs[outcome.task].taskData = Encode(io.arg[1])
  /\ objs[outcome.task].taskData # Encode(objs[outcome.task].data)

\* The call the last step made is a mutation that fails.
FailedMutation(o, i) ==
  \/ o.op = "updateData" /\ (i.arg[1] = VNil \/ ~Encodable(i.arg[1]))
  \/ o.op = "updateTaskFn" /\ i.arg[1] \notin Callable

\* C17 as claimed: updateData with an absent payload or a payload whose
\* encoding fails, and updateTaskFn with an absent or non-callable
\* argument, throw to the caller and leave every field of the task as it
\* was.
C17_FailedMutationObservable ==
  [][FailedMutation(outcome', io') =>
       /\ outcome'.err # NoError
       /\ objs' = objs]_vars


Mutators == {"updateData", "updateTaskFn", "run", "kill"}

\* C18 as claimed: clone() returns a new task with the id, the decoded
\* payload and the function text of the original and without a worker, and
\* leaves the original as it was; afterwards updateData, updateTaskFn, run
\* and kill on one of the two leave the fields and the worker of the other
\* as they were.
C18_CloneIndependent ==
  [][/\ outcome'.op = "clone" =>
          /\ outcome'.err = NoError
          /\ Len(objs') = Len(objs) + 1
          /\ objs'[Len(objs')].id = objs[outcome'.task].id
          /\ GetDecodedData(objs'[Len(objs')]) = GetDecodedData(objs[outcome'.task])
          /\ objs'[Len(objs')].taskFn = objs[outcome'.task].taskFn
          /\ objs'[Len(objs')].llama = 0
          /\ objs'[outcome'.task] = objs[outcome'.task]
     /\ outcome'.op \in Mutators =>
          \A u \in Objs \ {outcome'.task} :
            /\ objs'[u] = objs[u]
            /\ objs[u].llama # 0 => llamas'[objs[u].llama] = llamas[objs[u].llama]]_vars

Terminal == {"completed", "failed"}

\* C19: in the step in which the worker of a dispatched task replies or
\* errors and settles its run(), the terminal status of that task, and
\* nothing else, is appended to what the status subscribers have seen; the
\* terminal statuses therefore appear in the order the workers answer.
C19_CompletionOrder ==
  [][\A l \in Llamas :
       llamas[l].status # 0 /\ llamas[l].state = "pending"
       /\ llamas'[l].state # "pending" =>
         /\ statuses'[llamas[l].status].status \in Terminal
         /\ stream' = Append(stream, [ref |-> llamas[l].status,
                                      seen |-> statuses'[llamas[l].status]])]_vars

\* Two tasks of one execution whose terminal statuses were emitted against
\* the submission order.
C19_Witness ==
  \E l1, l2 \in Llamas :
    /\ llamas[l1].run # 0
    /\ llamas[l1].run = llamas[l2].run
    /\ llamas[l1].pos < llamas[l2].pos
    /\ \E i, j \in 1..Len(stream) :
         /\ i < j
         /\ stream[i].ref = llamas[l2].status /\ stream[i].seen.status \in Terminal
         /\ stream[j].ref = llamas[l1].status /\ stream[j].seen.status \in Terminal

\* C20: once the first event of a worker is handled, its run() has the
\* outcome of that event and keeps it whatever the worker hands over
\* later; the task has one terminal status, the one of that outcome, and
\* at most one entry in the aggregate.
C20_FirstEventDecides ==
  \A l \in Llamas :
    LET c == llamas[l]
        first == WorkerEvents(c)[1]
        seen == SeenOf(stream, c.status)
    IN  c.events > 0 =>
          /\ first.ok => c.state = "resolved" /\ c.value = first.value
          /\ ~first.ok => /\ c.state = "rejected"
                          /\ c.error = ErrExecTask(objs[c.task].id, first.msg)
          /\ c.status # 0 =>
               /\ Len(seen) = 2
               /\ seen[2].status = IF first.ok THEN "completed" ELSE "failed"
          /\ c.run # 0 =>
               Cardinality(EntriesOf(c.run, c.pos)) = IF first.ok THEN 1 ELSE 0

\* A worker of an execution has handed over a reply and an error, one after
\* the other, and another one an error and then a reply.
C20_Witness ==
  \E l1, l2 \in Llamas :
    /\ llamas[l1].run # 0 /\ llamas[l1].events = 2
    /\ WorkerEvents(llamas[l1])[1].ok /\ ~WorkerEvents(llamas[l1])[2].ok
    /\ llamas[l2].run # 0 /\ llamas[l2].events = 2
    /\ ~WorkerEvents(llamas[l2])[1].ok /\ WorkerEvents(llamas[l2])[2].ok


\* C21: every status event, as it reads when it is emitted, has a start
\* time; it has an end time exactly when it is terminal, a result only
\* when it is completed and an error only when it is failed.
C21_StatusFields ==
  \A i \in 1..Len(stream) :
    LET e == stream[i].seen
    IN  /\ e.status \in {"running"} \cup Terminal
        /\ e.startTime > 0
        /\ e.endTime > 0 <=> e.status \in Terminal
        /\ e.result # NoValue => e.status = "completed"
        /\ e.error # NoError => e.status = "failed"

\* A completed event carrying a result and a failed event carrying an
\* error have been emitted.
C21_Witness ==
  \E i, j \in 1..Len(stream) :
    /\ stream[i].seen.status = "completed" /\ stream[i].seen.result # NoValue
    /\ stream[i].seen.endTime >= stream[i].seen.startTime
    /\ stream[j].seen.status = "failed" /\ stream[j].seen.error # NoError


\* C24 as claimed: an emitted status event keeps reading what it read when
\* it was emitted: the object a subscriber was handed with status running
\* still reads running, without end time, result or error, after the
\* terminal status of the task has been emitted.
C24_StableSnapshots ==
  \A i \in 1..Len(stream) :
    statuses[stream[i].ref] = stream[i].seen


\* Every task of execution r has a worker whose run() has settled and
\* whose terminal status has been emitted.
AllTerminal(r) ==
  \A p \in 1..Len(runs[r].list) :
    \E l \in Llamas :
      /\ llamas[l].run = r /\ llamas[l].pos = p
      /\ llamas[l].state # "pending"
      /\ Len(SeenOf(stream, llamas[l].status)) = 2

RunningAt(s) == {i \in 1..Len(stream) : stream[i].ref = s /\ stream[i].seen.status = "running"}
TerminalAt(s) == {i \in 1..Len(stream) : stream[i].ref = s /\ stream[i].seen.status \in Terminal}

\* C23: in every execution each task of the list has its worker and its
\* running event, the running events are in submission order, and all of
\* them precede every terminal event of the execution.
C23_FanOutFirst ==
  \A r \in Runs :
    /\ \A p \in 1..Len(runs[r].list) :
         \E l \in LlamasOf(r) :
           llamas[l].pos = p /\ Cardinality(RunningAt(llamas[l].status)) = 1
    /\ \A l1, l2 \in LlamasOf(r) :
         \A i \in RunningAt(llamas[l1].status) :
           /\ \A j \in RunningAt(llamas[l2].status) :
                llamas[l1].pos < llamas[l2].pos => i < j
           /\ \A j \in TerminalAt(llamas[l2].status) : i < j

\* runAllTasks has just returned for a list of two tasks and the first of
\* them has failed already, inside the call.
C23_Witness ==
  /\ outcome.op = "runAllTasks"
  /\ Len(runs[Len(runs)].list) = 2
  /\ \E l \in LlamasOf(Len(runs)) :
       llamas[l].pos = 1 /\ TerminalAt(llamas[l].status) # {}


\* Execution r has ended and none of its tasks is left with a status that
\* reads running.
Settled(r) ==
  /\ r \in Runs
  /\ runs[r].state # "active"
  /\ \A l \in LlamasOf(r) : statuses[llamas[l].status].status # "running"

\* C25 as claimed: every execution of runAllTasks eventually delivers its
\* aggregate or an error, and no status stays running for ever, also when
\* kill() or killAllTasks() terminates a worker that has not answered.
C25_AlwaysSettles ==
  \A r \in 1..MaxRuns : [](r \in Runs => <>Settled(r))


\* C26 as claimed: run() leaves the id, the payload, the encoded bytes and
\* the function text of the task as they were, so that a second run()
\* hands its worker what the first one handed over and serialize() returns
\* the text it returned before.
C26_RunKeepsData ==
  [][outcome'.op = "run" =>
       LET t == outcome'.task
       IN  /\ objs'[t].id = objs[t].id
           /\ objs'[t].data = objs[t].data
           /\ objs'[t].taskData = objs[t].taskData
           /\ objs'[t].taskFn = objs[t].taskFn
           /\ SerializeTask(objs'[t]) = SerializeTask(objs[t])
           /\ NewLlama(objs'[t], t, 0, 0, 0) = NewLlama(objs[t], t, 0, 0, 0)]_vars


\* C27: in the fail-fast variant, the step in which the run() of a task of
\* an active execution is rejected ends the execution with the error that
\* names that task, whatever the number of tasks still running; an
\* execution that has been rejected keeps its error, so that a later
\* failure is not reported.
C27_FirstFailureWins ==
  [][\A r \in Runs :
       /\ \A l \in LlamasOf(r) :
            runs[r].state = "active" /\ llamas[l].state = "pending"
            /\ llamas'[l].state = "rejected" =>
              /\ runs'[r].state = "rejected"
              /\ runs'[r].error =
                   <<"Failed to execute tasks: ", "Failed to execute task ",
                     objs[llamas[l].task].id, ": ">> \o llamas'[l].error
       /\ runs[r].state = "rejected" => runs'[r] = runs[r]]_vars

\* An execution was rejected while another of its tasks was running, and
\* that task has failed afterwards.
C27_Witness ==
  \E r \in Runs :
    /\ runs[r].state = "rejected"
    /\ outcome.op = "event"
    /\ \E l1, l2 \in LlamasOf(r) :
         /\ l1 # l2
         /\ llamas[l1].state = "rejected" /\ llamas[l1].events = 1
         /\ llamas[l2].state = "rejected" /\ llamas[l2].events = 1
         /\ objs[llamas[l1].task].id # objs[llamas[l2].task].id

====
